---- MODULE Spec2Model ----
(***************************************************************************)
(* A model of nixpacks' AppBuilder (src/src/nixpacks/mod.rs): provider     *)
(* detection, plan derivation, Procfile parsing, artifact generation and   *)
(* the build orchestration of do_build.                                    *)
(*                                                                         *)
(* Conventions:                                                            *)
(*   Option<T>      None is <<>>, Some(x) is <<x>>                          *)
(*   String         a sequence of one-character strings                    *)
(*   anyhow::Error  the chain of messages, outermost context first, the    *)
(*                  root cause last                                        *)
(***************************************************************************)
EXTENDS Integers, Sequences, FiniteSets, TLC

VARIABLES
    options,        \* AppBuilder.options: AppBuilderOptions
    environment,    \* AppBuilder.environment: the variables of the Environment
    procfile,       \* the App's file "Procfile": None or Some(contents)
    provider,       \* AppBuilder.provider: Option<&dyn Provider>
    pc,             \* position inside the running call, "idle" between calls
    caller,         \* the public method that is running: "plan" or "build"
    providers,      \* the argument of plan / build
    idx,            \* detect: position in the for loop over providers
    calls,          \* calls made on providers during this call: <<method, p>>
    ret,            \* what the providers returned during this call
    procfile_cmd,   \* result of parse_procfile (Some(r) once it has run)
    pkgs, install_cmd, build_cmd, start_cmd, variables,  \* locals of plan
    plan,           \* the BuildPlan built by plan / read from plan_path
    result,         \* the Result of the finished call: None while running
    dir,            \* do_build: the destination path
    tmp_exists,     \* whether the directory at the TempDir path exists
    tmp_made,       \* whether this call created a TempDir
    effects,        \* side effects of do_build, in the order they happened
    nix_expression, \* write_build_plan: the result of gen_nix
    recipe,         \* write_build_plan: the result of gen_dockerfile
    nix_file,       \* <dest>/environment.nix: None or Some(contents)
    dockerfile      \* <dest>/Dockerfile: None or Some(contents)

vars == <<options, environment, procfile, provider, pc, caller,
          providers, idx, calls, ret, procfile_cmd, pkgs, install_cmd,
          build_cmd, start_cmd, variables, plan, result, dir, tmp_exists,
          tmp_made, effects, nix_expression, recipe, nix_file, dockerfile>>

-----------------------------------------------------------------------------
(* Bounds *)

MaxProviders == 2
MaxPieces == 3

-----------------------------------------------------------------------------
(* Option, Result and strings *)

None == <<>>
Some(x) == <<x>>
IsSome(o) == o # None
Unwrap(o) == o[1]

\* Option::or
OptionOr(a, b) == IF IsSome(a) THEN a ELSE b

Ok == Some([ok |-> TRUE, chain |-> <<>>])
Err(chain) == Some([ok |-> FALSE, chain |-> chain])

\* anyhow's .context(c) on an error
Context(c, chain) == <<c>> \o chain

\* the root causes the collaborators report
IoError == "io error"
ProviderError == "provider error"
SerdeError == "serde error"

StartsWith(s, p) == Len(s) >= Len(p) /\ SubSeq(s, 1, Len(p)) = p

\* str::replace(from, ""): every non-overlapping match, left to right
RECURSIVE Remove(_, _)
Remove(s, from) ==
    IF s = <<>> THEN <<>>
    ELSE IF StartsWith(s, from) THEN Remove(SubSeq(s, Len(from) + 1, Len(s)), from)
    ELSE <<Head(s)>> \o Remove(Tail(s), from)

IsWhitespace(c) == c \in {" ", "\n"}

RECURSIVE TrimStart(_)
TrimStart(s) ==
    IF s # <<>> /\ IsWhitespace(Head(s)) THEN TrimStart(Tail(s)) ELSE s

RECURSIVE TrimEnd(_)
TrimEnd(s) ==
    IF s # <<>> /\ IsWhitespace(s[Len(s)]) THEN TrimEnd(SubSeq(s, 1, Len(s) - 1)) ELSE s

\* str::trim
Trim(s) == TrimEnd(TrimStart(s))

WebPrefix == <<"w", "e", "b", ":", " ">>

-----------------------------------------------------------------------------
(* Inputs *)

NIX_PACKS_VERSION == "0.0.1"
NIXPKGS_ARCHIVE == "30d3d79b7d3607d56546dd2a6b49e156ba0ec634"

ProviderIds == 1..MaxProviders

RECURSIVE SeqsNoRepeat(_, _)
SeqsNoRepeat(S, n) ==
    IF n = 0 THEN {<<>>}
    ELSE LET shorter == SeqsNoRepeat(S, n - 1)
         IN  shorter \cup {Append(s, x) : s \in shorter, x \in S}

\* the provider lists a caller passes: each provider at most once
ProviderLists ==
    {s \in SeqsNoRepeat(ProviderIds, MaxProviders) :
        \A i, j \in 1..Len(s) : i # j => s[i] # s[j]}

Keys == {"A", "B"}
Maps(K, V) == UNION {[S -> V] : S \in SUBSET K}

EnvValue == "from env"
ProviderValue == "from provider"

CustomPkg == [name |-> "custom"]
ProviderPkg == [name |-> "provided"]

CustomBuildCmd == <<"c", "b">>
CustomStartCmd == <<"c", "s">>
ProviderInstallCmd == <<"p", "i">>
ProviderBuildCmd == <<"p", "b">>
ProviderStartCmd == <<"p", "s">>

OptionsOf(cb, cs, cp, pin, out, pp) ==
    [custom_build_cmd |-> cb, custom_start_cmd |-> cs, custom_pkgs |-> cp,
     pin_pkgs |-> pin, out_dir |-> out, plan_path |-> pp]

\* Procfile contents: up to MaxPieces pieces, one after the other
ProcfilePieces == {WebPrefix, <<"x">>, <<" ">>, <<"\n">>, <<"w">>}

RECURSIVE Contents(_)
Contents(n) ==
    IF n = 0 THEN {<<>>}
    ELSE LET shorter == Contents(n - 1)
         IN  shorter \cup {s \o p : s \in shorter, p \in ProcfilePieces}

ProcfileContents == Contents(MaxPieces)

\* a Procfile with the web directive alone, and one without it
WebProcfile == WebPrefix \o <<"x">>
OtherProcfile == <<"x">>

-----------------------------------------------------------------------------
(* The pure parts of AppBuilder *)

\* parse_procfile, on the contents of an existing Procfile
ProcfileCommand(contents) ==
    IF StartsWith(contents, WebPrefix)
    THEN Some(Trim(Remove(contents, WebPrefix)))
    ELSE None

\* get_pkgs: custom_pkgs, then the provider's
PkgsOf(custom_pkgs, provider_pkgs) == custom_pkgs \o provider_pkgs

\* get_build_cmd
BuildCmdOf(custom_build_cmd, suggested_build_cmd) ==
    OptionOr(custom_build_cmd, suggested_build_cmd)

\* get_start_cmd with the provider's suggestion taken before the Procfile's
StartCmdProviderFirst(custom_start_cmd, procfile_command, suggested_start_cmd) ==
    OptionOr(OptionOr(custom_start_cmd, suggested_start_cmd), procfile_command)

\* get_start_cmd
StartCmdOf(custom_start_cmd, procfile_command, suggested_start_cmd) ==
    OptionOr(OptionOr(custom_start_cmd, procfile_command), suggested_start_cmd)

\* get_variables: provider_variables.into_iter().chain(variables).collect()
\* inserts the provider's pairs first and the Environment's after them; an
\* insert of a key that is present replaces its value.
MergeVariables(provider_variables, env_variables) ==
    [k \in DOMAIN provider_variables \cup DOMAIN env_variables |->
        IF k \in DOMAIN env_variables THEN env_variables[k]
        ELSE provider_variables[k]]

\* plan: the BuildPlan literal
BuildPlanOf(pin, p, ic, sc, bc, v) ==
    [version |-> NIX_PACKS_VERSION,
     nixpkgs_archive |-> IF pin THEN Some(NIXPKGS_ARCHIVE) ELSE None,
     pkgs |-> p, install_cmd |-> ic, start_cmd |-> sc, build_cmd |-> bc,
     variables |-> v]

\* detect without the break: the loop goes on after a match
DetectNoBreak(matches, i, n) == i + 1

\* detect: the loop position after the provider at i answered; break leaves
\* the loop
DetectNext(matches, i, n) == IF matches THEN n + 1 ELSE i + 1

\* gen_nix: the catalog import and the packages in plan order
GenNix(p) ==
    [pkg_import |-> IF IsSome(p.nixpkgs_archive)
                    THEN <<"import (fetchTarball ", Unwrap(p.nixpkgs_archive), ")">>
                    ELSE <<"import <nixpkgs>">>,
     paths |-> p.pkgs]

\* the orders in which an iteration over the map m may visit its keys
IterationOrders(m) ==
    {o \in [1..Cardinality(DOMAIN m) -> DOMAIN m] :
        \A i, j \in DOMAIN o : i # j => o[i] # o[j]}

\* gen_dockerfile: format!("ENV {}='{}'", var.0, var.1)
EnvLine(k, v) == <<"ENV ", k, "='", v, "'">>

\* gen_dockerfile: one ENV line per variable as plan.variables.iter() yields
\* them, then the install, build and start lines
GenDockerfile(p, order) ==
    [args |-> [i \in DOMAIN order |-> EnvLine(order[i], p.variables[order[i]])],
     install_cmd |-> IF IsSome(p.install_cmd) THEN <<"RUN ", Unwrap(p.install_cmd)>> ELSE <<>>,
     build_cmd |-> IF IsSome(p.build_cmd) THEN <<"RUN ", Unwrap(p.build_cmd)>> ELSE <<>>,
     start_cmd |-> IF IsSome(p.start_cmd) THEN <<"CMD ", Unwrap(p.start_cmd)>> ELSE <<>>]

\* do_build without the test of the copy status
CopyStatusIgnored(success) == FALSE

\* do_build: if !copy_result.success() { bail!("Copy failed") }
CopyFailed(success) == ~success

\* do_build without the test of out_dir
BuildsImageAlways(out_dir) == TRUE

\* do_build: if self.options.out_dir.is_none() { docker build ... }
BuildsImage(out_dir) == out_dir = None

-----------------------------------------------------------------------------
(* State *)

config == <<options, environment, procfile>>
locals == <<procfile_cmd, pkgs, install_cmd, build_cmd, start_cmd, variables>>
dest == <<dir, tmp_exists, tmp_made, effects, nix_expression, recipe,
          nix_file, dockerfile>>

\* a call of a Provider method: on which provider, and how it ended
Call(method, p, outcome) == [method |-> method, provider |-> p, outcome |-> outcome]

\* what a provider method returned: None until it has been called
NoReturns ==
    [pkgs |-> None, install_cmd |-> None, suggested_build_cmd |-> None,
     suggested_start_command |-> None, get_environment_variables |-> None]

\* AppBuilder::new, and no call running
Constructed ==
    /\ provider = None
    /\ pc = "idle"
    /\ caller = "none"
    /\ providers = <<>>
    /\ idx = 1
    /\ calls = <<>>
    /\ ret = NoReturns
    /\ procfile_cmd = None
    /\ pkgs = <<>>
    /\ install_cmd = None
    /\ build_cmd = None
    /\ start_cmd = None
    /\ variables = <<>>
    /\ plan = None
    /\ result = None
    /\ dir = None
    /\ tmp_exists = FALSE
    /\ tmp_made = FALSE
    /\ effects = <<>>
    /\ nix_expression = None
    /\ recipe = None
    /\ nix_file = None
    /\ dockerfile = None

\* entry of a public method: nothing of the previous call is left but
\* self.provider
Enter(method, ps) ==
    /\ pc = "idle"
    /\ caller' = method
    /\ providers' = ps
    /\ idx' = 1
    /\ calls' = <<>>
    /\ ret' = NoReturns
    /\ procfile_cmd' = None
    /\ pkgs' = <<>>
    /\ install_cmd' = None
    /\ build_cmd' = None
    /\ start_cmd' = None
    /\ variables' = <<>>
    /\ plan' = None
    /\ result' = None
    /\ dir' = None
    /\ tmp_exists' = FALSE
    /\ tmp_made' = FALSE
    /\ effects' = <<>>
    /\ nix_expression' = None
    /\ recipe' = None
    /\ nix_file' = None
    /\ dockerfile' = None
    /\ UNCHANGED <<config, provider>>

\* an error leaves plan: build adds its context to it
PlanFails(chain) ==
    /\ result' = Err(IF caller = "build" THEN Context("Creating build plan", chain)
                     ELSE chain)
    /\ pc' = "idle"

-----------------------------------------------------------------------------
(* plan *)

PlanCall ==
    \E ps \in ProviderLists :
        /\ Enter("plan", ps)
        /\ pc' = "detect"

\* detect: one iteration of the loop
DetectStep ==
    /\ pc = "detect"
    /\ idx <= Len(providers)
    /\ \E answer \in {"true", "false", "error"} :
        /\ calls' = Append(calls, Call("detect", providers[idx], answer))
        /\ IF answer = "error"
           THEN /\ PlanFails(<<"Detecting provider", ProviderError>>)
                /\ UNCHANGED <<provider, idx>>
           ELSE /\ provider' = IF answer = "true" THEN Some(providers[idx]) ELSE provider
                /\ idx' = DetectNext(answer = "true", idx, Len(providers))
                /\ UNCHANGED <<pc, result>>
    /\ UNCHANGED <<config, caller, providers, ret, locals, plan, dest>>

\* detect: the loop is over
DetectDone ==
    /\ pc = "detect"
    /\ idx > Len(providers)
    /\ pc' = "get_pkgs"
    /\ UNCHANGED <<config, provider, caller, providers, idx, calls, ret, locals,
                   plan, result, dest>>

GetPkgs ==
    /\ pc = "get_pkgs"
    /\ IF IsSome(provider)
       THEN \/ /\ calls' = Append(calls, Call("pkgs", Unwrap(provider), "error"))
               /\ PlanFails(<<"Getting packages", ProviderError>>)
               /\ UNCHANGED <<ret, pkgs>>
            \/ \E provider_pkgs \in {<<>>, <<ProviderPkg>>} :
                 /\ calls' = Append(calls, Call("pkgs", Unwrap(provider), "ok"))
                 /\ ret' = [ret EXCEPT !.pkgs = Some(provider_pkgs)]
                 /\ pkgs' = PkgsOf(options.custom_pkgs, provider_pkgs)
                 /\ pc' = "get_install_cmd"
                 /\ UNCHANGED result
       ELSE /\ pkgs' = options.custom_pkgs
            /\ pc' = "get_install_cmd"
            /\ UNCHANGED <<calls, ret, result>>
    /\ UNCHANGED <<config, provider, caller, providers, idx, procfile_cmd,
                   install_cmd, build_cmd, start_cmd, variables,
                   plan, dest>>

GetInstallCmd ==
    /\ pc = "get_install_cmd"
    /\ IF IsSome(provider)
       THEN \/ /\ calls' = Append(calls, Call("install_cmd", Unwrap(provider), "error"))
               /\ PlanFails(<<"Generating install command", ProviderError>>)
               /\ UNCHANGED <<ret, install_cmd>>
            \/ \E cmd \in {None, Some(ProviderInstallCmd)} :
                 /\ calls' = Append(calls, Call("install_cmd", Unwrap(provider), "ok"))
                 /\ ret' = [ret EXCEPT !.install_cmd = Some(cmd)]
                 /\ install_cmd' = cmd
                 /\ pc' = "get_build_cmd"
                 /\ UNCHANGED result
       ELSE /\ install_cmd' = None
            /\ pc' = "get_build_cmd"
            /\ UNCHANGED <<calls, ret, result>>
    /\ UNCHANGED <<config, provider, caller, providers, idx, procfile_cmd,
                   pkgs, build_cmd, start_cmd, variables,
                   plan, dest>>

GetBuildCmd ==
    /\ pc = "get_build_cmd"
    /\ IF IsSome(provider)
       THEN \/ /\ calls' = Append(calls, Call("suggested_build_cmd", Unwrap(provider), "error"))
               /\ PlanFails(<<"Generating build command", ProviderError>>)
               /\ UNCHANGED <<ret, build_cmd>>
            \/ \E cmd \in {None, Some(ProviderBuildCmd)} :
                 /\ calls' = Append(calls, Call("suggested_build_cmd", Unwrap(provider), "ok"))
                 /\ ret' = [ret EXCEPT !.suggested_build_cmd = Some(cmd)]
                 /\ build_cmd' = BuildCmdOf(options.custom_build_cmd, cmd)
                 /\ pc' = "get_start_cmd"
                 /\ UNCHANGED result
       ELSE /\ build_cmd' = BuildCmdOf(options.custom_build_cmd, None)
            /\ pc' = "get_start_cmd"
            /\ UNCHANGED <<calls, ret, result>>
    /\ UNCHANGED <<config, provider, caller, providers, idx, procfile_cmd,
                   pkgs, install_cmd, start_cmd, variables,
                   plan, dest>>

\* parse_procfile: includes_file, read_file (which may fail), the prefix test
ParseProcfile(read_ok) ==
    IF IsSome(procfile)
    THEN IF read_ok THEN [ok |-> TRUE, value |-> ProcfileCommand(Unwrap(procfile))]
         ELSE [ok |-> FALSE, value |-> None]
    ELSE [ok |-> TRUE, value |-> None]

\* get_start_cmd: parse_procfile first, then the provider's suggestion
GetStartCmd ==
    /\ pc = "get_start_cmd"
    /\ \E read_ok \in BOOLEAN :
        LET parsed == ParseProcfile(read_ok) IN
        IF ~parsed.ok
        THEN /\ PlanFails(<<"Generating start command", IoError>>)
             /\ UNCHANGED <<calls, ret, procfile_cmd, start_cmd>>
        ELSE /\ procfile_cmd' = Some(parsed.value)
             /\ IF IsSome(provider)
                THEN \/ /\ calls' = Append(calls, Call("suggested_start_command",
                                                      Unwrap(provider), "error"))
                        /\ PlanFails(<<"Generating start command", ProviderError>>)
                        /\ UNCHANGED <<ret, start_cmd>>
                     \/ \E cmd \in {None, Some(ProviderStartCmd)} :
                          /\ calls' = Append(calls, Call("suggested_start_command",
                                                        Unwrap(provider), "ok"))
                          /\ ret' = [ret EXCEPT !.suggested_start_command = Some(cmd)]
                          /\ start_cmd' = StartCmdOf(options.custom_start_cmd,
                                                     parsed.value, cmd)
                          /\ pc' = "get_variables"
                          /\ UNCHANGED result
                ELSE /\ start_cmd' = StartCmdOf(options.custom_start_cmd, parsed.value, None)
                     /\ pc' = "get_variables"
                     /\ UNCHANGED <<calls, ret, result>>
    /\ UNCHANGED <<config, provider, caller, providers, idx, pkgs, install_cmd,
                   build_cmd, variables, plan, dest>>

GetVariables ==
    /\ pc = "get_variables"
    /\ IF IsSome(provider)
       THEN \/ /\ calls' = Append(calls, Call("get_environment_variables", Unwrap(provider), "error"))
               /\ PlanFails(<<"Getting plan variables", ProviderError>>)
               /\ UNCHANGED <<ret, variables>>
            \/ \E provider_variables \in Maps(Keys, {ProviderValue}) :
                 /\ calls' = Append(calls, Call("get_environment_variables", Unwrap(provider), "ok"))
                 /\ ret' = [ret EXCEPT !.get_environment_variables = Some(provider_variables)]
                 /\ variables' = MergeVariables(provider_variables, environment)
                 /\ pc' = "make_plan"
                 /\ UNCHANGED result
       ELSE /\ variables' = environment
            /\ pc' = "make_plan"
            /\ UNCHANGED <<calls, ret, result>>
    /\ UNCHANGED <<config, provider, caller, providers, idx, procfile_cmd,
                   pkgs, install_cmd, build_cmd, start_cmd,
                   plan, dest>>

\* plan: the BuildPlan is built and returned, to the caller or into build
PlanReturn ==
    /\ pc = "make_plan"
    /\ plan' = Some(BuildPlanOf(options.pin_pkgs, pkgs, install_cmd, start_cmd,
                                build_cmd, variables))
    /\ IF caller = "plan"
       THEN /\ result' = Ok
            /\ pc' = "idle"
       ELSE /\ pc' = "do_build"
            /\ UNCHANGED result
    /\ UNCHANGED <<config, provider, caller, providers, idx, calls, ret, locals, dest>>

NextPlan ==
    \/ PlanCall
    \/ DetectStep
    \/ DetectDone
    \/ GetPkgs
    \/ GetInstallCmd
    \/ GetBuildCmd
    \/ GetStartCmd
    \/ GetVariables
    \/ PlanReturn

InitPlan ==
    /\ options \in {OptionsOf(cb, cs, cp, TRUE, None, None) :
                        cb \in {None, Some(CustomBuildCmd)},
                        cs \in {None, Some(CustomStartCmd)},
                        cp \in {<<>>, <<CustomPkg>>}}
    /\ environment \in Maps(Keys, {EnvValue})
    /\ procfile \in {None, Some(WebProcfile), Some(OtherProcfile)}
    /\ Constructed

SpecPlan == InitPlan /\ [][NextPlan]_vars

-----------------------------------------------------------------------------
(* build and do_build *)

TmpPath == "/tmp/nixpacks.XXXXXX"
OutDir == "./out"

\* the plans a file at plan_path may hold
FilePlans ==
    {BuildPlanOf(FALSE, <<>>, None, None, None, <<>>),
     BuildPlanOf(TRUE, <<ProviderPkg>>, Some(ProviderInstallCmd), Some(ProviderStartCmd),
                 Some(ProviderBuildCmd), [k \in Keys |-> EnvValue])}

\* an error leaves build
BuildFails(chain) ==
    /\ result' = Err(chain)
    /\ pc' = "idle"

BuildCall ==
    \E ps \in ProviderLists :
        /\ Enter("build", ps)
        /\ pc' = IF IsSome(options.plan_path) THEN "read_plan" ELSE "detect"

\* build: the plan is read from plan_path and deserialized
ReadPlan ==
    /\ pc = "read_plan"
    /\ \/ /\ BuildFails(<<"Reading build plan", IoError>>)
          /\ UNCHANGED plan
       \/ /\ BuildFails(<<"Deserializing build plan", SerdeError>>)
          /\ UNCHANGED plan
       \/ \E p \in FilePlans :
            /\ plan' = Some(p)
            /\ pc' = "do_build"
            /\ UNCHANGED result
    /\ UNCHANGED <<config, provider, caller, providers, idx, calls, ret, locals, dest>>

\* do_build: the destination is out_dir, or the path of a new TempDir
MakeDest ==
    /\ pc = "do_build"
    /\ IF IsSome(options.out_dir)
       THEN /\ dir' = options.out_dir
            /\ pc' = "copy_spawn"
            /\ UNCHANGED <<tmp_exists, tmp_made, result>>
       ELSE \/ /\ BuildFails(<<"Creating a temp directory", IoError>>)
               /\ UNCHANGED <<dir, tmp_exists, tmp_made>>
            \/ /\ tmp_made' = TRUE
               /\ tmp_exists' = TRUE
               /\ dir' = Some(TmpPath)
               /\ pc' = "tmp_scope_end"
               /\ UNCHANGED result
    /\ UNCHANGED <<config, provider, caller, providers, idx, calls, ret, locals,
                   plan, effects, nix_expression, recipe, nix_file, dockerfile>>

\* do_build: the match arm that made tmp ends; tmp is dropped there, and
\* dropping a TempDir deletes its directory
TempDirDrop ==
    /\ pc = "tmp_scope_end"
    /\ tmp_exists' = FALSE
    /\ pc' = "copy_spawn"
    /\ UNCHANGED <<config, provider, caller, providers, idx, calls, ret, locals,
                   plan, result, dir, tmp_made, effects, nix_expression, recipe,
                   nix_file, dockerfile>>

\* do_build: Command::new("cp")...spawn()?
CopySpawn ==
    /\ pc = "copy_spawn"
    /\ \/ /\ BuildFails(<<IoError>>)
          /\ UNCHANGED effects
       \/ /\ effects' = Append(effects, "cp spawned")
          /\ pc' = "copy_wait"
          /\ UNCHANGED result
    /\ UNCHANGED <<config, provider, caller, providers, idx, calls, ret, locals,
                   plan, dir, tmp_exists, tmp_made, nix_expression, recipe,
                   nix_file, dockerfile>>

\* do_build: copy_cmd.wait() and the status test. cp creates a destination
\* directory that is missing; a cp that failed may have created it or not.
CopyWait ==
    /\ pc = "copy_wait"
    /\ \/ /\ BuildFails(<<"Copying app source to tmp dir", IoError>>)
          /\ UNCHANGED <<effects, tmp_exists>>
       \/ \E success \in BOOLEAN :
            /\ effects' = Append(effects, IF success THEN "cp succeeded" ELSE "cp failed")
            /\ IF CopyFailed(success)
               THEN /\ BuildFails(<<"Copy failed">>)
                    /\ \E created \in BOOLEAN :
                         tmp_exists' = (tmp_exists \/ (tmp_made /\ created))
               ELSE /\ tmp_exists' = (tmp_exists \/ tmp_made)
                    /\ pc' = "write_build_plan"
                    /\ UNCHANGED result
    /\ UNCHANGED <<config, provider, caller, providers, idx, calls, ret, locals,
                   plan, dir, tmp_made, nix_expression, recipe, nix_file, dockerfile>>

\* write_build_plan: gen_nix and gen_dockerfile
GenArtifacts ==
    /\ pc = "write_build_plan"
    /\ nix_expression' = Some(GenNix(Unwrap(plan)))
    /\ \E order \in IterationOrders(Unwrap(plan).variables) :
         recipe' = Some(GenDockerfile(Unwrap(plan), order))
    /\ pc' = "create_nix"
    /\ UNCHANGED <<config, provider, caller, providers, idx, calls, ret, locals,
                   plan, result, dir, tmp_exists, tmp_made, effects, nix_file,
                   dockerfile>>

\* write_build_plan: File::create(nix_path)
CreateNixFile ==
    /\ pc = "create_nix"
    /\ \/ /\ BuildFails(<<"Writing build plan", "Creating Nix environment file", IoError>>)
          /\ UNCHANGED <<effects, nix_file>>
       \/ /\ nix_file' = Some(<<>>)
          /\ effects' = Append(effects, "environment.nix created")
          /\ pc' = "write_nix"
          /\ UNCHANGED result
    /\ UNCHANGED <<config, provider, caller, providers, idx, calls, ret, locals,
                   plan, dir, tmp_exists, tmp_made, nix_expression, recipe, dockerfile>>

\* write_build_plan: nix_file.write_all(...)
WriteNixFile ==
    /\ pc = "write_nix"
    /\ \/ /\ BuildFails(<<"Writing build plan", "Unable to write Nix expression", IoError>>)
          /\ UNCHANGED <<effects, nix_file>>
       \/ /\ nix_file' = Some(<<Unwrap(nix_expression)>>)
          /\ effects' = Append(effects, "environment.nix written")
          /\ pc' = "create_dockerfile"
          /\ UNCHANGED result
    /\ UNCHANGED <<config, provider, caller, providers, idx, calls, ret, locals,
                   plan, dir, tmp_exists, tmp_made, nix_expression, recipe, dockerfile>>

\* write_build_plan: File::create(dockerfile_path)
CreateDockerfile ==
    /\ pc = "create_dockerfile"
    /\ \/ /\ BuildFails(<<"Writing build plan", "Creating Dockerfile file", IoError>>)
          /\ UNCHANGED <<effects, dockerfile>>
       \/ /\ dockerfile' = Some(<<>>)
          /\ effects' = Append(effects, "Dockerfile created")
          /\ pc' = "write_dockerfile"
          /\ UNCHANGED result
    /\ UNCHANGED <<config, provider, caller, providers, idx, calls, ret, locals,
                   plan, dir, tmp_exists, tmp_made, nix_expression, recipe, nix_file>>

\* write_build_plan: fs::write(dockerfile_path, dockerfile), and then
\* do_build's test of out_dir
WriteDockerfile ==
    /\ pc = "write_dockerfile"
    /\ \/ /\ BuildFails(<<"Writing build plan", "Writing Dockerfile", IoError>>)
          /\ UNCHANGED <<effects, dockerfile>>
       \/ /\ dockerfile' = Some(<<Unwrap(recipe)>>)
          /\ effects' = Append(effects, "Dockerfile written")
          /\ pc' = IF BuildsImage(options.out_dir) THEN "docker_spawn" ELSE "saved"
          /\ UNCHANGED result
    /\ UNCHANGED <<config, provider, caller, providers, idx, calls, ret, locals,
                   plan, dir, tmp_exists, tmp_made, nix_expression, recipe, nix_file>>

\* do_build: Command::new("docker")...spawn()?
DockerSpawn ==
    /\ pc = "docker_spawn"
    /\ \/ /\ BuildFails(<<IoError>>)
          /\ UNCHANGED effects
       \/ /\ effects' = Append(effects, "docker spawned")
          /\ pc' = "docker_wait"
          /\ UNCHANGED result
    /\ UNCHANGED <<config, provider, caller, providers, idx, calls, ret, locals,
                   plan, dir, tmp_exists, tmp_made, nix_expression, recipe,
                   nix_file, dockerfile>>

\* do_build: docker_build_cmd.wait() and the status test
DockerWait ==
    /\ pc = "docker_wait"
    /\ \/ /\ BuildFails(<<"Building image", IoError>>)
          /\ UNCHANGED effects
       \/ /\ BuildFails(<<"Docker build failed">>)
          /\ UNCHANGED effects
       \/ /\ effects' = Append(effects, "docker succeeded")
          /\ result' = Ok
          /\ pc' = "idle"
    /\ UNCHANGED <<config, provider, caller, providers, idx, calls, ret, locals,
                   plan, dir, tmp_exists, tmp_made, nix_expression, recipe,
                   nix_file, dockerfile>>

\* do_build: the else branch, "Saved output to"
Saved ==
    /\ pc = "saved"
    /\ result' = Ok
    /\ pc' = "idle"
    /\ UNCHANGED <<config, provider, caller, providers, idx, calls, ret, locals,
                   plan, dest>>

Init ==
    /\ options \in {OptionsOf(None, None, <<>>, FALSE, out, pp) :
                        out \in {None, Some(OutDir)},
                        pp \in {None, Some("plan.json")}}
    /\ environment \in {<<>>, [k \in Keys |-> EnvValue]}
    /\ procfile = Some(WebProcfile)
    /\ Constructed

Next ==
    \/ PlanCall
    \/ DetectStep
    \/ DetectDone
    \/ GetPkgs
    \/ GetInstallCmd
    \/ GetBuildCmd
    \/ GetStartCmd
    \/ GetVariables
    \/ PlanReturn
    \/ BuildCall
    \/ ReadPlan
    \/ MakeDest
    \/ TempDirDrop
    \/ CopySpawn
    \/ CopyWait
    \/ GenArtifacts
    \/ CreateNixFile
    \/ WriteNixFile
    \/ CreateDockerfile
    \/ WriteDockerfile
    \/ DockerSpawn
    \/ DockerWait
    \/ Saved

Spec == Init /\ [][Next]_vars

-----------------------------------------------------------------------------
(* parse_procfile on every Procfile of the bound *)

ParseProcfileCall ==
    /\ pc = "idle"
    /\ procfile_cmd = None
    /\ \E read_ok \in BOOLEAN :
        LET parsed == ParseProcfile(read_ok) IN
        IF parsed.ok
        THEN /\ procfile_cmd' = Some(parsed.value)
             /\ result' = Ok
        ELSE /\ result' = Err(<<IoError>>)
             /\ UNCHANGED procfile_cmd
    /\ UNCHANGED <<config, provider, pc, caller, providers, idx, calls, ret,
                   pkgs, install_cmd, build_cmd, start_cmd, variables, plan, dest>>

InitProcfile ==
    /\ options = OptionsOf(None, None, <<>>, FALSE, None, None)
    /\ environment = <<>>
    /\ procfile \in {None} \cup {Some(c) : c \in ProcfileContents}
    /\ Constructed

NextProcfile == ParseProcfileCall

SpecProcfile == InitProcfile /\ [][NextProcfile]_vars

-----------------------------------------------------------------------------
(* Properties *)

Range(f) == {f[i] : i \in DOMAIN f}

\* a call has returned
Done == pc = "idle" /\ IsSome(result)
Failed == Done /\ ~Unwrap(result).ok
Succeeded == Done /\ Unwrap(result).ok

\* plan() of the running (or last) call has built its BuildPlan
Planned == IsSome(plan) /\ options.plan_path = None

\* some provider of the list passed to this call detected
Detected == \E i \in DOMAIN calls : calls[i].method = "detect" /\ calls[i].outcome = "true"

\* the provider's answer of this call, absent when none was asked
Returned(method) == IF IsSome(ret[method]) THEN Unwrap(ret[method]) ELSE None

\* C1: the variables of the Plan are the union of the Environment's and the
\* active provider's, and every key the provider supplies has the provider's
\* value, also when the Environment holds another value for it.
C1_ProviderValueWins ==
    Planned /\ IsSome(ret.get_environment_variables) =>
        LET from_provider == Unwrap(ret.get_environment_variables)
            v == Unwrap(plan).variables
        IN  /\ DOMAIN v = DOMAIN from_provider \cup DOMAIN environment
            /\ \A k \in DOMAIN from_provider : v[k] = from_provider[k]
            /\ \A k \in DOMAIN environment \ DOMAIN from_provider : v[k] = environment[k]

\* C2: plan.start_cmd is the first present of custom_start_cmd, the
\* Procfile-derived command and the provider's suggested_start_command, and
\* is absent only when all three are.
C2_StartCmdPrecedence ==
    Planned =>
        LET custom == options.custom_start_cmd
            from_procfile == Unwrap(procfile_cmd)
            suggested == Returned("suggested_start_command")
            sc == Unwrap(plan).start_cmd
        IN  /\ IsSome(custom) => sc = custom
            /\ ~IsSome(custom) /\ IsSome(from_procfile) => sc = from_procfile
            /\ ~IsSome(custom) /\ ~IsSome(from_procfile) => sc = suggested
            /\ ~IsSome(sc) => ~IsSome(custom) /\ ~IsSome(from_procfile) /\ ~IsSome(suggested)

\* a Procfile with a web command and a provider that suggests another one,
\* and no custom_start_cmd: the Procfile's command is the start command
C2_Witness ==
    /\ Planned
    /\ ~IsSome(options.custom_start_cmd)
    /\ procfile_cmd = Some(Some(<<"x">>))
    /\ ret.suggested_start_command = Some(Some(ProviderStartCmd))
    /\ Unwrap(plan).start_cmd = Some(<<"x">>)

\* the first line of a text: what precedes its first line feed
RECURSIVE FirstLine(_)
FirstLine(s) ==
    IF s = <<>> \/ Head(s) = "\n" THEN <<>> ELSE <<Head(s)>> \o FirstLine(Tail(s))

\* C3: the Procfile-derived command is the remainder of the Procfile's first
\* line after the prefix "web: ", trimmed, when that line begins with the
\* prefix, whatever follows the first line; it is absent otherwise.
C3_FirstLineRemainder ==
    IsSome(procfile_cmd) =>
        Unwrap(procfile_cmd) =
            IF IsSome(procfile) /\ StartsWith(FirstLine(Unwrap(procfile)), WebPrefix)
            THEN LET line == FirstLine(Unwrap(procfile))
                 IN  Some(Trim(SubSeq(line, Len(WebPrefix) + 1, Len(line))))
            ELSE None

\* the five provider calls plan makes after detect, in its order
PlanMethods ==
    <<"pkgs", "install_cmd", "suggested_build_cmd", "suggested_start_command",
      "get_environment_variables">>

\* C4: detect is called on the providers in the order of the list, the first
\* that answers true becomes the active provider and none after it is asked;
\* every later call of plan is made on that provider and the plan's fields
\* are what it returned.
C4_FirstMatchIsActive ==
    /\ \A i \in DOMAIN calls :
        calls[i].method = "detect" =>
            /\ i <= Len(providers)
            /\ calls[i].provider = providers[i]
            /\ \A j \in 1..(i - 1) :
                calls[j].method = "detect" /\ calls[j].outcome = "false"
    /\ \A i \in DOMAIN calls :
        calls[i].outcome = "true" =>
            /\ provider = Some(calls[i].provider)
            /\ \A j \in DOMAIN calls :
                j > i => /\ calls[j].provider = calls[i].provider
                         /\ j - i <= Len(PlanMethods)
                         /\ calls[j].method = PlanMethods[j - i]
    /\ Planned /\ Detected =>
        /\ Len(calls) = Len(SelectSeq(calls, LAMBDA c : c.method = "detect")) + Len(PlanMethods)
        /\ Unwrap(plan).pkgs = options.custom_pkgs \o Returned("pkgs")
        /\ Unwrap(plan).install_cmd = Returned("install_cmd")
        /\ Unwrap(plan).build_cmd =
              IF IsSome(options.custom_build_cmd) THEN options.custom_build_cmd
              ELSE Returned("suggested_build_cmd")
        /\ \A k \in DOMAIN Returned("get_environment_variables") :
              k \in DOMAIN Unwrap(plan).variables

\* the first of two providers detects: the second is never asked
C4_Witness ==
    /\ Planned
    /\ Len(providers) = 2
    /\ calls[1] = Call("detect", providers[1], "true")
    /\ Len(calls) = 1 + Len(PlanMethods)
    /\ provider = Some(providers[1])

\* C5: with out_dir absent, the temporary directory exists during the source
\* copy, the artifact writes and the container build, and no longer exists
\* once build has returned, on success and on every failure.
C5_TempDirScoped ==
    tmp_made =>
        /\ pc \in {"copy_spawn", "copy_wait", "write_build_plan", "create_nix",
                   "write_nix", "create_dockerfile", "write_dockerfile",
                   "docker_spawn", "docker_wait"} => tmp_exists
        /\ Done => ~tmp_exists

\* the side effects of a build that ends in a container build
BuildOrder ==
    <<"cp spawned", "cp succeeded", "environment.nix created", "environment.nix written",
      "Dockerfile created", "Dockerfile written", "docker spawned", "docker succeeded">>

\* C6: the side effects of a build happen in the order source copy, write of
\* environment.nix, write of Dockerfile, container build, each after the one
\* before it succeeded; the container build happens only without out_dir.
C6_EffectsInOrder ==
    /\ \/ Len(effects) <= Len(BuildOrder) /\ effects = SubSeq(BuildOrder, 1, Len(effects))
       \/ effects = <<"cp spawned", "cp failed">> /\ (Failed \/ pc = "copy_wait")
    /\ "docker spawned" \in Range(effects) => options.out_dir = None
    /\ caller = "build" /\ Succeeded =>
          effects = IF options.out_dir = None THEN BuildOrder ELSE SubSeq(BuildOrder, 1, 6)
    /\ "environment.nix written" \in Range(effects) => nix_file = Some(<<Unwrap(nix_expression)>>)
    /\ "Dockerfile written" \in Range(effects) => dockerfile = Some(<<Unwrap(recipe)>>)

\* a build into out_dir that succeeded: both files written, no container build
C6_Witness ==
    /\ caller = "build"
    /\ Succeeded
    /\ IsSome(options.out_dir)
    /\ effects = SubSeq(BuildOrder, 1, 6)
    /\ IsSome(dockerfile)

\* the keys of the model in ascending order
SortedKeys == <<"A", "B">>

\* C7: the recipe holds one line ENV <key>='<value>' per plan variable, the
\* lines in ascending order of the keys, so it is a function of the mapping.
C7_EnvLinesSorted ==
    IsSome(recipe) =>
        LET v == Unwrap(plan).variables
            keys == SelectSeq(SortedKeys, LAMBDA k : k \in DOMAIN v)
        IN  Unwrap(recipe).args = [i \in DOMAIN keys |-> EnvLine(keys[i], v[keys[i]])]

\* the messages that name a stage of build
Stages ==
    {"Creating build plan", "Detecting provider", "Getting packages",
     "Generating install command", "Generating build command",
     "Generating start command", "Getting plan variables", "Reading build plan",
     "Deserializing build plan", "Creating a temp directory",
     "Copying app source to tmp dir", "Copy failed", "Writing build plan",
     "Creating Nix environment file", "Unable to write Nix expression",
     "Creating Dockerfile file", "Writing Dockerfile", "Building image",
     "Docker build failed"}

\* what a chain of messages ends with when the cause is kept
Causes == {IoError, ProviderError, SerdeError, "Copy failed", "Docker build failed"}

\* C8: the error of a failed build names the stage that failed and keeps the
\* underlying cause.
C8_ErrorNamesStage ==
    caller = "build" /\ Failed =>
        LET chain == Unwrap(result).chain
        IN  chain[1] \in Stages /\ chain[Len(chain)] \in Causes

\* C9: when no provider of the list passed to this call detects, the plan is
\* that of an absent provider: custom_pkgs, no install command,
\* custom_build_cmd, a start command from custom_start_cmd or the Procfile
\* only, and the Environment's variables.
C9_NoMatchNoProvider ==
    Planned /\ ~Detected =>
        /\ Unwrap(plan).pkgs = options.custom_pkgs
        /\ Unwrap(plan).install_cmd = None
        /\ Unwrap(plan).build_cmd = options.custom_build_cmd
        /\ Unwrap(plan).start_cmd =
              IF IsSome(options.custom_start_cmd) THEN options.custom_start_cmd
              ELSE Unwrap(procfile_cmd)
        /\ Unwrap(plan).variables = environment
        /\ \A i \in DOMAIN calls : calls[i].method = "detect"

\* C10: when the file copy ends with a non-zero status, build returns an
\* error, neither environment.nix nor Dockerfile is written and the container
\* builder is not invoked.
C10_CopyFailureStops ==
    "cp failed" \in Range(effects) =>
        /\ Failed
        /\ nix_file = None
        /\ dockerfile = None
        /\ effects = <<"cp spawned", "cp failed">>

\* a build whose file copy ended with a non-zero status
C10_Witness ==
    /\ "cp failed" \in Range(effects)
    /\ result = Err(<<"Copy failed">>)
    /\ IsSome(plan)

====
